---- MODULE Spec2Model ----
(***************************************************************************)
(* RCA -> Fix -> Patch multi-agent pipeline.                               *)
(*                                                                         *)
(* Each stage is a LangGraph loop of a model node ("llm") and a tool node  *)
(* ("tools") joined by a flow-control function (should_continue).  The     *)
(* completion service and the file system are the environment: every       *)
(* response, exception and write outcome is chosen with \E.                *)
(***************************************************************************)
EXTENDS Integers, Sequences, FiniteSets, TLC

VARIABLES
    orch,             \* "workflow" (app/workflow.py) or "main" (app/main.py)
    scope,            \* "stage": one stage graph is run; "pipeline": a whole run
    stage,            \* "RCA", "Fix" or "Patch": the stage graph being driven
    pc,               \* position: "start", "llm", "tools", "returned", "raised", "finished"
    messages,         \* state["messages"] of the running stage graph
    shared_memory,    \* state["shared_memory"] of the running stage graph
    message_history,  \* state["message_history"] of the running stage graph
    pipeline,         \* PipelineState / OrchestratorState of the orchestrator
    llm_calls,        \* completion-service invocations made by the running stage
    llm_failed,       \* a completion-service invocation of the running stage raised
    tool_execs,       \* tool executions of the running stage, in order
    patches,          \* patch files written so far, in order
    all_read,         \* every invocation so far returned a response requesting read_file
    any_create,       \* some response so far requested create_patch_file
    budget,           \* deviations the environment may still inject (see MaxDeviations)
    conversations,    \* the requests the last model-node execution sent, in order
    exception,        \* str(e) of the exception that left the graph; "" when none
    codebase_root,    \* os.getenv("CODEBASE_ROOT"); "" when unset
    cwd,              \* working directory of the process
    disk,             \* the regular files: absolute path -> content
    last_call         \* the last direct tool call: tool, arguments, outcome

vars == <<orch, scope, stage, pc, messages, shared_memory, message_history,
          pipeline, llm_calls, llm_failed, tool_execs, patches,
          all_read, any_create, budget, conversations, exception,
          codebase_root, cwd, disk, last_call>>

\* the environment of the tools
ToolVars == <<codebase_root, cwd, disk, last_call>>

(***************************************************************************)
(* Bounds of the exploration.                                              *)
(***************************************************************************)
\* Deviations the environment may inject into one run: a tool request beyond
\* the first of a response, an exception of the completion service, a plain
\* response that is unparseable or carries empty code, a failed write.
MaxDeviations == 1

(***************************************************************************)
(* Program constants.                                                      *)
(***************************************************************************)
RCA_MAX_ITER   == 5
FIX_MAX_ITER   == 3
PATCH_MAX_ITER == 5
STUCK_MIN_MESSAGES == 3
STUCK_READ_CALLS   == 2

Stages == {"RCA", "Fix", "Patch"}

Cap(s) == CASE s = "RCA" -> RCA_MAX_ITER
            [] s = "Fix" -> FIX_MAX_ITER
            [] s = "Patch" -> PATCH_MAX_ITER

(***************************************************************************)
(* Python values.                                                          *)
(***************************************************************************)
None == [is_none |-> TRUE]

\* Python truthiness of an optional dict: None and {} are falsy.
Truthy(v) == v # None /\ DOMAIN v # {}

Last(s) == s[Len(s)]

Paths == {"a.py", "b.py"}

\* path strings of the exploration and their components; a leading "/" is a
\* leading "" component
Components(p) ==
    CASE p = "a.py" -> <<"a.py">>
      [] p = "b.py" -> <<"b.py">>
      [] p = "/a.py" -> <<"", "a.py">>
      [] p = "app/a.py" -> <<"app", "a.py">>
      [] p = "/usr/srv/app/a.py" -> <<"", "usr", "srv", "app", "a.py">>
      [] p = "patches/fixed_a.py" -> <<"patches", "fixed_a.py">>
      [] p = "" -> <<>>

ToolPaths == {"a.py", "b.py", "/a.py", "app/a.py", "/usr/srv/app/a.py",
              "patches/fixed_a.py", ""}

\* file_path.lstrip("/")
RECURSIVE Lstrip(_)
Lstrip(cs) == IF cs # <<>> /\ Head(cs) = "" THEN Lstrip(Tail(cs)) ELSE cs

\* os.path.join(base, *cs)
RECURSIVE JoinPath(_, _)
JoinPath(base, cs) ==
    IF cs = <<>> THEN base ELSE JoinPath(base \o "/" \o Head(cs), Tail(cs))

\* Path(p).name
PathName(p) == IF Lstrip(Components(p)) = <<>> THEN "" ELSE Last(Components(p))

\* the files of the codebase before any tool has run
InitialDisk ==
    [p \in {"/codebase/a.py", "/codebase/app/a.py"} |->
        IF p = "/codebase/a.py" THEN "import os\nuser.emails"
        ELSE "import sys\nfrom os import path\nimport sys\nimport os"]

\* os.path.isfile
IsFile(abs_path) == abs_path \in DOMAIN disk

\* the lines of a text, content.split('\n'), each with the import statement
\* it holds
SourceLines(content) ==
    CASE content = "import os\nuser.emails" ->
            <<[kind |-> "import", target |-> "os"], [kind |-> "other", target |-> ""]>>
      [] content = "import sys\nfrom os import path\nimport sys\nimport os" ->
            <<[kind |-> "import", target |-> "sys"], [kind |-> "from", target |-> "os"],
              [kind |-> "import", target |-> "sys"], [kind |-> "import", target |-> "os"]>>
      [] OTHER -> <<[kind |-> "other", target |-> ""]>>

(***************************************************************************)
(* Messages.                                                               *)
(***************************************************************************)
HumanMessage(c) == [role |-> "human", content |-> c, tool_calls |-> <<>>, tool_call_id |-> 0]

AIMessage(c, calls) == [role |-> "ai", content |-> c, tool_calls |-> calls, tool_call_id |-> 0]

\* faulty variant: the instruction is sent as a user message
SystemMessage_human(c) == [role |-> "human", content |-> c, tool_calls |-> <<>>, tool_call_id |-> 0]

SystemMessage(c) == [role |-> "system", content |-> c, tool_calls |-> <<>>, tool_call_id |-> 0]

ToolMessage(c, id) == [role |-> "tool", content |-> c, tool_calls |-> <<>>, tool_call_id |-> id]

\* getattr(msg, "tool_calls", None) is truthy
HasToolCalls(m) == Len(m.tool_calls) > 0

(***************************************************************************)
(* Tools (app/tools, and the second read_file of src/tools).               *)
(***************************************************************************)
\* os.path.abspath(os.path.join(codebase_root, file_path.lstrip("/")))
abs_path(file_path) == JoinPath(codebase_root, Lstrip(Components(file_path)))

read_file(file_path) ==
    IF codebase_root = ""
    THEN [success |-> FALSE,
          error |-> "CODEBASE_ROOT environment variable not set",
          file_path |-> file_path]
    ELSE IF ~IsFile(abs_path(file_path))
    THEN [success |-> FALSE,
          error |-> "File not found: " \o abs_path(file_path),
          file_path |-> file_path]
    ELSE [success |-> TRUE, file_path |-> file_path,
          absolute_path |-> abs_path(file_path),
          content |-> disk[abs_path(file_path)],
          lines |-> ToString(Len(SourceLines(disk[abs_path(file_path)])))]

\* src/tools/read_file_tool.py, the second read_file of the repository: the
\* path it opens ("/usr/srv/app" is mapped to <root>/app)
tools_abs_path(file_path) ==
    LET cs == Components(file_path)
    IN  IF Len(cs) >= 4 /\ SubSeq(cs, 1, 4) = <<"", "usr", "srv", "app">>
        THEN JoinPath(codebase_root, <<"app">> \o SubSeq(cs, 5, Len(cs)))
        ELSE JoinPath(codebase_root, Lstrip(cs))

\* src/tools/read_file_tool.py: returns the text or raises
tools_read_file(file_path) ==
    IF codebase_root = ""
    THEN [raised |-> "RuntimeError: CODEBASE_ROOT environment variable not set"]
    ELSE IF ~IsFile(tools_abs_path(file_path))
    THEN [raised |-> "FileNotFoundError: File not found: " \o tools_abs_path(file_path)]
    ELSE [returned |-> disk[tools_abs_path(file_path)]]

\* the order sorted() gives the module names of the exploration
ModuleRank(m) == CASE m = "os" -> 1 [] m = "sys" -> 2 [] OTHER -> 3

\* sorted(set(...)) of the targets of a sequence of lines
RECURSIVE SortedNames(_)
SortedNames(S) ==
    IF S = {} THEN <<>>
    ELSE LET m == CHOOSE x \in S : \A y \in S : ModuleRank(x) <= ModuleRank(y)
         IN  <<m>> \o SortedNames(S \ {m})

\* lines 24-37 and 60 of check_dependency: what the two Python patterns
\* extract from a text
python_imports(content) ==
    LET ls == SourceLines(content)
    IN  SortedNames({ls[i].target : i \in {k \in 1..Len(ls) : ls[k].kind \in {"import", "from"}}})

\* re.findall is handed the dict read_file returns: TypeError, caught.
check_dependency(file_path) ==
    [success |-> FALSE, file |-> file_path,
     error |-> "expected string or bytes-like object"]

get_project_directory(relative_path) ==
    [success |-> TRUE, structure |-> "{'a.py': 'file'}"]

\* faulty variant: the patch is named after the whole original path
create_patch_file_inplace(original_file_path, fixed_content, ok) ==
    IF ok
    THEN [success |-> TRUE,
          patch_file |-> original_file_path,
          original_file |-> original_file_path,
          fixed_filename |-> PathName(original_file_path),
          absolute_path |-> JoinPath(cwd, Lstrip(Components(original_file_path)))]
    ELSE [success |-> FALSE,
          error |-> "Failed to create patch file: disk error",
          original_file |-> original_file_path]

\* ok: whether the environment lets the write succeed
create_patch_file(original_file_path, fixed_content, ok) ==
    IF ok
    THEN [success |-> TRUE,
          patch_file |-> "patches/fixed_" \o PathName(original_file_path),
          original_file |-> original_file_path,
          fixed_filename |-> "fixed_" \o PathName(original_file_path),
          absolute_path |->
              JoinPath(cwd, <<"patches", "fixed_" \o PathName(original_file_path)>>)]
    ELSE [success |-> FALSE,
          error |-> "Failed to create patch file: disk error",
          original_file |-> original_file_path]

\* faulty variant: the tool name is left out of the error
UnknownTool_bare(tool_name) == [text |-> "Error"]

\* f"Unknown tool: {tool_name}"; the observation is a bare string
UnknownTool(tool_name) == [text |-> "Unknown tool: " \o tool_name]

\* str(observation) as the RCA tool node renders it
StrOf(observation) ==
    IF "text" \in DOMAIN observation THEN observation.text
    ELSE IF observation.success
         THEN IF "content" \in DOMAIN observation
              THEN "{'success': True, 'content': '" \o observation.content \o "'}"
              ELSE "{'success': True}"
         ELSE "{'success': False, 'error': '" \o observation.error \o "'}"

\* the read_file rendering shared by the Fix and Patch tool nodes
ReadFileContent(observation) ==
    IF observation.success
    THEN "Successfully read file: " \o observation.file_path
           \o " Total lines: " \o observation.lines
           \o " File Content: " \o observation.content
    ELSE "Error: " \o observation.error

(***************************************************************************)
(* What the completion service may answer.                                 *)
(***************************************************************************)
ReadReq(p)  == [name |-> "read_file", args |-> [file_path |-> p]]
DirReq      == [name |-> "get_project_directory", args |-> [relative_path |-> "."]]
DepReq      == [name |-> "check_dependency", args |-> [file_path |-> "a.py"]]
CreateReq   == [name |-> "create_patch_file",
                args |-> [original_file_path |-> "a.py", fixed_content |-> "fixed code"]]
SearchReq   == [name |-> "web_search", args |-> [query |-> "q"]]

\* the requests explored when one stage graph is run
StageRequests(s) ==
    CASE s = "RCA"   -> {ReadReq("a.py"), DirReq, DepReq, CreateReq}
      [] s = "Fix"   -> {ReadReq("a.py"), ReadReq("b.py"), CreateReq}
      [] s = "Patch" -> {ReadReq("a.py"), DepReq, CreateReq, SearchReq}

\* the requests explored when a whole pipeline is run
PipelineRequests(s) ==
    CASE s = "RCA"   -> {ReadReq("a.py")}
      [] s = "Fix"   -> {ReadReq("a.py")}
      [] s = "Patch" -> {ReadReq("a.py"), CreateReq}

ToolRequests(s) ==
    IF scope = "pipeline" THEN PipelineRequests(s) ELSE StageRequests(s)

\* the request lists of n requests
RequestLists(s, n) == [1..n -> ToolRequests(s)]

\* correlation ids are unique within a stage run
CallId(iteration, i) == iteration * 10 + i

WithIds(reqs, iteration) ==
    [i \in 1..Len(reqs) |->
        [name |-> reqs[i].name, args |-> reqs[i].args, id |-> CallId(iteration, i)]]

Requests(calls, n) == \E i \in 1..Len(calls) : calls[i].name = n

(***************************************************************************)
(* Stage results and their JSON text.                                      *)
(***************************************************************************)
RCAOutputs ==
    {[error_type |-> "AttributeError", error_message |-> "no attribute emails",
      root_cause |-> "typo", affected_file |-> f, affected_line |-> 18] : f \in Paths}

RenderRCA(r) == "{\"affected_file\": \"" \o r.affected_file \o "\"}"

RCATexts == {RenderRCA(r) : r \in RCAOutputs} \cup {"I think the bug is in a.py"}

\* PydanticOutputParser.parse: the record the text encodes, or None when
\* the text is not valid JSON for the schema (OutputParserException)
rca_parser(text) ==
    IF \E r \in RCAOutputs : RenderRCA(r) = text
    THEN CHOOSE r \in RCAOutputs : RenderRCA(r) = text
    ELSE None

(***************************************************************************)
(* Audit entries (message_history).                                        *)
(***************************************************************************)
AgentInput(agent, iteration, content) ==
    [event |-> "agent_input", agent |-> agent, iteration |-> iteration,
     content |-> content]

AgentOutput(agent, iteration, content, calls) ==
    [event |-> "agent_output", agent |-> agent, iteration |-> iteration,
     content |-> content, tool_calls |-> calls]

ToolCallEntry(iteration, call, observation) ==
    [event |-> "tool_call", iteration |-> iteration, tool |-> call.name,
     input |-> call.args, output |-> observation]

\* ghost record of one tool execution
Exec(by, call, observation) ==
    [by |-> by, tool |-> call.name, input |-> call.args, output |-> observation]

\* entries of the log with the given event (the log may also hold messages)
CountEvent(log, ev) ==
    Cardinality({i \in 1..Len(log) : "event" \in DOMAIN log[i] /\ log[i].event = ev})

(***************************************************************************)
(* Flow control.                                                           *)
(***************************************************************************)
\* str(e) of what the completion service and the parsers can raise
RateLimitError  == "429 quota exceeded"
ProviderError   == "503 service unavailable"
ParserError     == "Failed to parse PatchOutput from completion"
UnboundError    == "local variable 'files_to_modify' referenced before assignment"
RcaParserError  == "Failed to parse RCAOutput from completion"

\* the system instruction of each stage
SYSTEM_PROMPT(s) ==
    CASE s = "RCA" -> "You are an expert Root Cause Analysis agent"
      [] s = "Fix" -> "You are a Fix Suggestion agent"
      [] s = "Patch" -> "You are a Precision Patch Generation Agent"

\* the request OutputFixingParser sends to its model for a completion that
\* failed to parse: one prompt with format instructions, completion and error
OutputFixing(completion) ==
    <<HumanMessage("Instructions: format Completion: " \o completion
                       \o " Error: parse Please try again.")>>

\* where the graph goes for a route: END leaves the stage graph
Goto(route) == IF route = "END" THEN "returned" ELSE route

\* faulty variant: the cap is compared with > instead of >=
rca_should_continue_late(sm, msgs) ==
    IF sm.iteration > RCA_MAX_ITER THEN "END"
    ELSE IF HasToolCalls(Last(msgs)) THEN "tools"
    ELSE IF Truthy(sm.rca_result) THEN "END"
    ELSE "llm"

\* faulty variant: a recorded rca_result does not end the loop
rca_should_continue_noresult(sm, msgs) ==
    IF sm.iteration >= RCA_MAX_ITER THEN "END"
    ELSE IF HasToolCalls(Last(msgs)) THEN "tools"
    ELSE "llm"

rca_should_continue(sm, msgs) ==
    IF sm.iteration >= RCA_MAX_ITER THEN "END"
    ELSE IF HasToolCalls(Last(msgs)) THEN "tools"
    ELSE IF Truthy(sm.rca_result) THEN "END"
    ELSE "llm"

(***************************************************************************)
(* RCA stage (app/agents/RCA_agent.py).                                    *)
(***************************************************************************)
\* the tool-request lists a response may carry: each request beyond the first
\* is a deviation
ToolResponses(s) == UNION {RequestLists(s, n) : n \in 1..(1 + budget)}

\* bookkeeping for a response that carried the requests reqs
Responded(reqs) ==
    /\ budget' = budget - (Len(reqs) - 1)
    /\ all_read' = (all_read /\ Requests(reqs, "read_file"))
    /\ any_create' = (any_create \/ Requests(reqs, "create_patch_file"))

\* faulty variant: the node catches the exception and records a degraded result
rca_on_exception_degraded(sm) ==
    [pc |-> "returned",
     shared_memory |-> [sm EXCEPT !.rca_result =
         [error_type |-> "Unknown", error_message |-> "analysis failed",
          root_cause |-> "completion service failed", affected_file |-> "a.py",
          affected_line |-> 0]]]

\* model_with_tools.invoke is not inside a try block: the exception leaves
\* the node and rca_app.invoke with shared_memory as it stands
rca_on_exception(sm) == [pc |-> "raised", shared_memory |-> sm]

rca_llm_node ==
    /\ UNCHANGED ToolVars
    /\ stage = "RCA" /\ pc = "llm"
    /\ LET iteration == shared_memory.iteration + 1
           sm1   == [shared_memory EXCEPT !.iteration = iteration]
           hist1 == Append(message_history,
                           AgentInput("RCA", iteration, Last(messages).content))
           \* line 249: the system instruction and the messages so far
           conversation == <<SystemMessage(SYSTEM_PROMPT("RCA"))>> \o messages
           \* lines 252-283: the response was received
           Answer(text, calls, sm, n_calls) ==
               /\ messages' = Append(messages, AIMessage(text, calls))
               /\ shared_memory' = sm
               /\ message_history' =
                      Append(hist1, AgentOutput("RCA", iteration, text, calls))
               /\ llm_calls' = llm_calls + n_calls
               /\ pc' = Goto(rca_should_continue(sm, Append(messages, AIMessage(text, calls))))
               /\ UNCHANGED <<llm_failed, exception>>
           \* an exception leaves the node after the agent_output entry
           Raise(text, failed, e) ==
               /\ exception' = e
               /\ shared_memory' = rca_on_exception(sm1).shared_memory
               /\ message_history' =
                      Append(hist1, AgentOutput("RCA", iteration, text, <<>>))
               /\ llm_calls' = llm_calls + 2
               /\ llm_failed' = failed
               /\ pc' = rca_on_exception(sm1).pc
               /\ UNCHANGED messages
       IN  \/ \* model_with_tools.invoke raises: nothing catches it
              /\ budget > 0
              /\ budget' = budget - 1
              /\ shared_memory' = rca_on_exception(sm1).shared_memory
              /\ message_history' = hist1
              /\ llm_calls' = llm_calls + 1
              /\ llm_failed' = TRUE
              /\ exception' = ProviderError
              /\ conversations' = <<conversation>>
              /\ pc' = rca_on_exception(sm1).pc
              /\ all_read' = FALSE
              /\ UNCHANGED <<messages, any_create>>
           \/ \* the response requests tools
              \E reqs \in ToolResponses("RCA") :
                 /\ Responded(reqs)
                 /\ conversations' = <<conversation>>
                 /\ Answer("", WithIds(reqs, iteration), sm1, 1)
           \/ \* a plain response: parse it, and on failure let the fixing
              \* parser ask the model for a corrected text
              \E text \in RCATexts :
                 /\ all_read' = FALSE
                 /\ UNCHANGED any_create
                 /\ conversations' = IF rca_parser(text) # None THEN <<conversation>>
                                     ELSE <<conversation, OutputFixing(text)>>
                 /\ IF rca_parser(text) # None
                    THEN /\ Answer(text, <<>>, [sm1 EXCEPT !.rca_result = rca_parser(text)], 1)
                         /\ UNCHANGED budget
                    ELSE /\ budget > 0
                         /\ budget' = budget - 1
                         /\ \/ \* the fixing parser's model call raises
                               Raise(text, TRUE, ProviderError)
                            \/ \E fixed \in RCATexts :
                                  IF rca_parser(fixed) # None
                                  THEN Answer(text, <<>>,
                                              [sm1 EXCEPT !.rca_result = rca_parser(fixed)], 2)
                                  ELSE \* OutputParserException leaves the graph
                                       Raise(text, llm_failed, RcaParserError)
    /\ UNCHANGED <<orch, scope, stage, pipeline, tool_execs, patches>>

\* faulty variant: the tool messages are appended last request first
results_reversed(calls, contents) ==
    [i \in 1..Len(calls) |->
        ToolMessage(contents[Len(calls) + 1 - i], calls[Len(calls) + 1 - i].id)]

\* the list a tool node builds in its loop over the requests: one ToolMessage
\* per request, in request order, with the request's id
results(calls, contents) ==
    [i \in 1..Len(calls) |-> ToolMessage(contents[i], calls[i].id)]

\* the tools the RCA tool node dispatches
rca_dispatch(call) ==
    CASE call.name = "read_file" -> read_file(call.args.file_path)
      [] call.name = "get_project_directory" -> get_project_directory(call.args.relative_path)
      [] call.name = "check_dependency" -> check_dependency(call.args.file_path)
      [] OTHER -> UnknownTool(call.name)

\* faulty variant: the RCA tool node also runs create_patch_file
rca_executes_write(call) ==
    call.name \in {"read_file", "get_project_directory", "check_dependency",
                   "create_patch_file"}

rca_executes(call) ==
    call.name \in {"read_file", "get_project_directory", "check_dependency"}

rca_tool_node ==
    /\ UNCHANGED ToolVars
    /\ UNCHANGED <<conversations, exception>>
    /\ stage = "RCA" /\ pc = "tools"
    /\ LET calls == Last(messages).tool_calls
           obs   == [i \in 1..Len(calls) |-> rca_dispatch(calls[i])]
       IN  /\ messages' = messages \o
                  results(calls, [i \in 1..Len(calls) |-> StrOf(obs[i])])
           /\ message_history' = message_history \o
                  [i \in 1..Len(calls) |->
                      ToolCallEntry(shared_memory.iteration, calls[i], obs[i])]
           /\ tool_execs' = tool_execs \o
                  SelectSeq([i \in 1..Len(calls) |-> Exec("tools", calls[i], obs[i])],
                            LAMBDA e : rca_executes([name |-> e.tool]))
    /\ pc' = "llm"
    /\ UNCHANGED <<orch, scope, stage, shared_memory, pipeline, llm_calls,
                   llm_failed, patches, all_read, any_create, budget>>

(***************************************************************************)
(* Fix stage (app/agents/fix_agent.py).                                    *)
(***************************************************************************)
\* what with_structured_output(FixOutput) may parse out of the model
FixProposals ==
    {[fix_summary |-> "rename emails to email", files_to_modify |-> <<"a.py">>,
      patch_plan |-> <<"edit line 18">>, safety_considerations |-> "none"],
     [fix_summary |-> "add an emails attribute", files_to_modify |-> <<"b.py">>,
      patch_plan |-> <<"edit line 18">>, safety_considerations |-> "none"],
     [fix_summary |-> "add an emails attribute", files_to_modify |-> <<"a.py", "b.py">>,
      patch_plan |-> <<"edit line 18">>, safety_considerations |-> "none"]}

\* faulty variant: the model's own files_to_modify is kept
fix_data_unforced(structured_fix, rca_result) == structured_fix

\* fix_data: the structured output with files_to_modify forced
fix_data(structured_fix, rca_result) ==
    [structured_fix EXCEPT !.files_to_modify = <<rca_result.affected_file>>]

fallback_fix(rca_result, e) ==
    [fix_summary |-> "Analysis failed",
     files_to_modify |-> <<rca_result.affected_file>>,
     patch_plan |-> <<"Manual fix required">>,
     safety_considerations |-> e]

FixAgentInput(rca_result) ==
    "Root Cause Analysis: Affected File: " \o rca_result.affected_file
        \o " You MUST use the Affected File and Affected Line provided in RCA."

\* faulty variant: the cap is compared with > instead of >=
fix_should_continue_late(sm, msgs) ==
    IF Truthy(sm.fix_result) THEN "END"
    ELSE IF sm.iteration > FIX_MAX_ITER THEN "END"
    ELSE IF Len(msgs) = 0 THEN "raised"
    ELSE IF HasToolCalls(Last(msgs)) THEN "tools"
    ELSE "llm"

\* faulty variant: a recorded fix_result does not end the loop
fix_should_continue_noresult(sm, msgs) ==
    IF sm.iteration >= FIX_MAX_ITER THEN "END"
    ELSE IF Len(msgs) = 0 THEN "raised"
    ELSE IF HasToolCalls(Last(msgs)) THEN "tools"
    ELSE "llm"

fix_should_continue(sm, msgs) ==
    IF Truthy(sm.fix_result) THEN "END"
    ELSE IF sm.iteration >= FIX_MAX_ITER THEN "END"
    ELSE IF Len(msgs) = 0 THEN "raised"
    ELSE IF HasToolCalls(Last(msgs)) THEN "tools"
    ELSE "llm"

fix_llm_node ==
    /\ UNCHANGED ToolVars
    /\ stage = "Fix" /\ pc = "llm"
    /\ LET iteration  == shared_memory.iteration + 1
           rca_result == shared_memory.rca_result
           \* lines 91-94: the system instruction and the rendered RCA result
           conversation == <<SystemMessage(SYSTEM_PROMPT("Fix")),
                             HumanMessage(FixAgentInput(rca_result))>>
           Return(msgs, sm, entries, n_calls, failed) ==
               /\ messages' = messages \o msgs
               /\ shared_memory' = sm
               /\ message_history' = message_history \o entries
               /\ llm_calls' = llm_calls + n_calls
               /\ llm_failed' = failed
               /\ conversations' = [k \in 1..n_calls |-> conversation]
               /\ pc' = Goto(fix_should_continue(sm, messages \o msgs))
               /\ exception' = IF fix_should_continue(sm, messages \o msgs) = "raised"
                               THEN "list index out of range" ELSE exception
           \* lines 151-175: the except branch, a deviation
           Fallback(e, n_calls, failed) ==
               /\ budget > 0
               /\ budget' = budget - 1
               /\ Return(<<>>,
                         [shared_memory EXCEPT !.iteration = iteration,
                                               !.fix_result = fallback_fix(rca_result, e)],
                         <<[event |-> "fix_failed", iteration |-> iteration, error |-> e]>>,
                         n_calls, failed)
       IN  IF ~Truthy(rca_result)
           THEN \* ValueError("RCA output missing in shared memory")
                /\ pc' = "raised"
                /\ exception' = "RCA output missing in shared memory"
                /\ conversations' = <<>>
                /\ UNCHANGED <<messages, shared_memory, message_history, llm_calls,
                               llm_failed, budget, all_read, any_create>>
           ELSE LET history_entry == AgentInput("Fix", iteration, FixAgentInput(rca_result))
                IN  \/ \* the tool-check call raises
                       /\ Fallback("503 service unavailable", 1, TRUE)
                       /\ all_read' = FALSE
                       /\ UNCHANGED any_create
                    \/ \* the tool-check response requests tools
                       \E reqs \in ToolResponses("Fix") :
                          /\ Responded(reqs)
                          /\ Return(<<AIMessage("", WithIds(reqs, iteration))>>,
                                    [shared_memory EXCEPT !.iteration = iteration],
                                    <<history_entry>>, 1, llm_failed)
                    \/ \* no tools: a second call asks for structured output
                       /\ all_read' = FALSE
                       /\ UNCHANGED any_create
                       /\ \/ \* the structured call raises
                             Fallback("503 service unavailable", 2, TRUE)
                          \/ \* nothing parsed: None.model_dump() raises
                             Fallback("'NoneType' object has no attribute 'model_dump'",
                                      2, llm_failed)
                          \/ \E structured_fix \in FixProposals :
                                LET data == fix_data(structured_fix, rca_result)
                                IN  /\ UNCHANGED budget
                                    /\ Return(<<HumanMessage("Fix plan completed: "
                                                             \o data.fix_summary)>>,
                                              [shared_memory EXCEPT !.iteration = iteration,
                                                                    !.fix_result = data],
                                              <<history_entry,
                                                [event |-> "agent_output", agent |-> "Fix",
                                                 iteration |-> iteration,
                                                 fix_result |-> data]>>,
                                              2, llm_failed)
    /\ UNCHANGED <<orch, scope, stage, pipeline, tool_execs, patches>>

fix_dispatch(call) ==
    CASE call.name = "read_file" -> read_file(call.args.file_path)
      [] OTHER -> UnknownTool(call.name)

fix_tool_content(call, observation) ==
    IF call.name = "read_file" THEN ReadFileContent(observation)
    ELSE observation.text

fix_executes(call) == call.name = "read_file"

fix_tool_node ==
    /\ UNCHANGED ToolVars
    /\ UNCHANGED <<conversations, exception>>
    /\ stage = "Fix" /\ pc = "tools"
    /\ LET calls == Last(messages).tool_calls
           obs   == [i \in 1..Len(calls) |-> fix_dispatch(calls[i])]
       IN  /\ messages' = messages \o
                  results(calls, [i \in 1..Len(calls) |->
                                     fix_tool_content(calls[i], obs[i])])
           /\ message_history' = message_history \o
                  [i \in 1..Len(calls) |->
                      ToolCallEntry(shared_memory.iteration, calls[i], obs[i])]
           /\ tool_execs' = tool_execs \o
                  SelectSeq([i \in 1..Len(calls) |-> Exec("tools", calls[i], obs[i])],
                            LAMBDA e : fix_executes([name |-> e.tool]))
    /\ pc' = "llm"
    /\ UNCHANGED <<orch, scope, stage, shared_memory, pipeline, llm_calls,
                   llm_failed, patches, all_read, any_create, budget>>

(***************************************************************************)
(* Patch stage (app/agents/patch_agent.py).                                *)
(***************************************************************************)
RenderPatch(code) == "{\"patched_code\": \"" \o code \o "\"}"

PatchCodes == {"fixed code", " "}

PatchTexts == {RenderPatch(c) : c \in PatchCodes} \cup {"Here is the patch"}

\* PydanticOutputParser.parse for PatchOutput; None for OutputParserException
patch_parser(text) ==
    IF \E c \in PatchCodes : RenderPatch(c) = text
    THEN [patched_code |-> CHOOSE c \in PatchCodes : RenderPatch(c) = text]
    ELSE None

\* str.strip()
Strip(code) == IF code = " " THEN "" ELSE code

\* "429" in error_msg or "quota" in error_msg.lower()
IsRateLimit(error_msg) == error_msg = RateLimitError

PatchAgentInput(rca_result, fix_result) ==
    IF ~Truthy(fix_result) THEN "No fix plan found in shared memory."
    ELSE "FIX PLAN: " \o fix_result.fix_summary \o " Call read_file tool with file_path="
             \o (IF Len(fix_result.files_to_modify) > 0
                 THEN fix_result.files_to_modify[1] ELSE "N/A")

\* messages whose tool_calls name read_file
read_file_calls(msgs) ==
    Cardinality({i \in 1..Len(msgs) : Requests(msgs[i].tool_calls, "read_file")})

StuckResult ==
    [success |-> FALSE, error |-> "Agent failed to generate patch after reading file"]

\* faulty variant: the stuck detector ends the loop without recording a result
patch_should_continue_silent(sm, msgs) ==
    IF Truthy(sm.patch_result) /\ sm.patch_result.success
    THEN [route |-> "END", shared_memory |-> sm]
    ELSE IF sm.iteration >= PATCH_MAX_ITER
    THEN [route |-> "END", shared_memory |-> sm]
    ELSE IF Len(msgs) >= STUCK_MIN_MESSAGES /\ read_file_calls(msgs) >= STUCK_READ_CALLS
    THEN [route |-> "END", shared_memory |-> sm]
    ELSE IF Len(msgs) > 0 /\ HasToolCalls(Last(msgs))
    THEN [route |-> "tools", shared_memory |-> sm]
    ELSE [route |-> "llm", shared_memory |-> sm]

\* faulty variant: no stuck detector
patch_should_continue_unguarded(sm, msgs) ==
    IF Truthy(sm.patch_result) /\ sm.patch_result.success
    THEN [route |-> "END", shared_memory |-> sm]
    ELSE IF sm.iteration >= PATCH_MAX_ITER
    THEN [route |-> "END", shared_memory |-> sm]
    ELSE IF Len(msgs) > 0 /\ HasToolCalls(Last(msgs))
    THEN [route |-> "tools", shared_memory |-> sm]
    ELSE [route |-> "llm", shared_memory |-> sm]

\* the route, and shared_memory as the function leaves it
patch_should_continue(sm, msgs) ==
    IF Truthy(sm.patch_result) /\ sm.patch_result.success
    THEN [route |-> "END", shared_memory |-> sm]
    ELSE IF sm.iteration >= PATCH_MAX_ITER
    THEN [route |-> "END", shared_memory |-> sm]
    ELSE IF Len(msgs) >= STUCK_MIN_MESSAGES /\ read_file_calls(msgs) >= STUCK_READ_CALLS
    THEN [route |-> "END",
          shared_memory |-> [sm EXCEPT !.patch_result = StuckResult]]
    ELSE IF Len(msgs) > 0 /\ HasToolCalls(Last(msgs))
    THEN [route |-> "tools", shared_memory |-> sm]
    ELSE [route |-> "llm", shared_memory |-> sm]

WriteCall(original_file, patched_code) ==
    [name |-> "create_patch_file",
     args |-> [original_file_path |-> original_file, fixed_content |-> patched_code]]

WrittenFile(call, observation) ==
    [patch_file |-> observation.patch_file, content |-> call.args.fixed_content]

\* the outcomes the environment may give a write with b deviations left
WriteOutcomes(b) == IF b > 0 THEN BOOLEAN ELSE {TRUE}

\* faulty variant: a rate-limited invocation is recorded as a failed patch
patch_on_rate_limit_failed(sm) ==
    [sm EXCEPT !.patch_result = [success |-> FALSE, error |-> RateLimitError]]

\* lines 355-367: shared_memory as the rate-limit branch returns it
patch_on_rate_limit(sm) == sm

patch_llm_node ==
    /\ UNCHANGED ToolVars
    /\ UNCHANGED exception
    /\ stage = "Patch" /\ pc = "llm"
    /\ LET iteration  == shared_memory.iteration + 1
           sm1        == [shared_memory EXCEPT !.iteration = iteration]
           fix_result == shared_memory.fix_result
           hist1 == Append(message_history,
                        AgentInput("PatchAgent", iteration,
                                   PatchAgentInput(shared_memory.rca_result, fix_result)))
           \* lines 275-281: system instruction, messages so far, instruction
           conversation ==
               <<SystemMessage(SYSTEM_PROMPT("Patch"))>> \o messages
                   \o <<HumanMessage(PatchAgentInput(shared_memory.rca_result,
                                                     fix_result))>>
           Return(msgs, sm, hist, n_calls, failed) ==
               /\ messages' = msgs
               /\ shared_memory' = patch_should_continue(sm, msgs).shared_memory
               /\ message_history' = hist
               /\ llm_calls' = llm_calls + n_calls
               /\ llm_failed' = failed
               /\ pc' = Goto(patch_should_continue(sm, msgs).route)
           \* lines 352-384: the except branch
           Except(error_msg, n_calls, failed) ==
               /\ IF IsRateLimit(error_msg)
                  THEN Return(messages, patch_on_rate_limit(sm1),
                              Append(hist1, [event |-> "patch_llm_rate_limited",
                                             iteration |-> iteration, error |-> error_msg]),
                              n_calls, failed)
                  ELSE Return(messages,
                              [sm1 EXCEPT !.patch_result =
                                   [success |-> FALSE, error |-> error_msg]],
                              Append(hist1, [event |-> "patch_generation_failed",
                                             iteration |-> iteration, error |-> error_msg]),
                              n_calls, failed)
               /\ UNCHANGED <<tool_execs, patches>>
           \* lines 309-350: the response parsed to structured_patch, with b
           \* deviations left
           Generated(text, structured_patch, n_calls, b) ==
               LET patched_code == Strip(structured_patch.patched_code)
                   response     == AIMessage(text, <<>>)
                   Finish(patch_result) ==
                       Return(Append(messages, response),
                              [sm1 EXCEPT !.patch_result = patch_result],
                              Append(hist1,
                                     [event |-> "agent_output", agent |-> "PatchAgent",
                                      iteration |-> iteration, content |-> patched_code,
                                      patch_result |-> patch_result]),
                              n_calls, llm_failed)
               IN  IF ~Truthy(fix_result)
                   THEN /\ Except(UnboundError, n_calls, llm_failed)
                        /\ budget' = b
                   ELSE IF Len(fix_result.files_to_modify) > 0 /\ patched_code # ""
                   THEN \E ok \in WriteOutcomes(b) :
                          LET call == WriteCall(fix_result.files_to_modify[1], patched_code)
                              patch_result ==
                                  create_patch_file(call.args.original_file_path,
                                                    call.args.fixed_content, ok)
                          IN  /\ Finish(patch_result)
                              /\ budget' = IF ok THEN b ELSE b - 1
                              /\ tool_execs' = Append(tool_execs,
                                                      Exec("llm", call, patch_result))
                              /\ patches' = IF ok
                                            THEN Append(patches,
                                                        WrittenFile(call, patch_result))
                                            ELSE patches
                   ELSE /\ Finish([success |-> FALSE,
                                   error |-> "No files to modify or empty patch code"])
                        /\ budget' = b
                        /\ UNCHANGED <<tool_execs, patches>>
       IN  \/ \* model_with_tools.invoke raises
              /\ budget > 0
              /\ budget' = budget - 1
              /\ \E error_msg \in {RateLimitError, ProviderError} :
                    Except(error_msg, 1, TRUE)
              /\ conversations' = <<conversation>>
              /\ all_read' = FALSE
              /\ UNCHANGED any_create
           \/ \* the response requests tools: returned without an agent_output
              /\ \E reqs \in ToolResponses("Patch") :
                    /\ Responded(reqs)
                    /\ Return(Append(messages, AIMessage("", WithIds(reqs, iteration))),
                              sm1, hist1, 1, llm_failed)
              /\ conversations' = <<conversation>>
              /\ UNCHANGED <<tool_execs, patches>>
           \/ \* a plain response
              /\ all_read' = FALSE
              /\ UNCHANGED any_create
              /\ \E text \in PatchTexts :
                    IF patch_parser(text) # None
                    THEN /\ conversations' = <<conversation>>
                         /\ IF Strip(patch_parser(text).patched_code) = ""
                            THEN /\ budget > 0
                                 /\ Generated(text, patch_parser(text), 1, budget - 1)
                            ELSE Generated(text, patch_parser(text), 1, budget)
                    ELSE /\ budget > 0
                         /\ conversations' = <<conversation, OutputFixing(text)>>
                         /\ \/ \* the fixing parser's model call raises
                               /\ \E error_msg \in {RateLimitError, ProviderError} :
                                     Except(error_msg, 2, TRUE)
                               /\ budget' = budget - 1
                            \/ \E fixed \in PatchTexts :
                                  IF patch_parser(fixed) # None
                                  THEN Generated(text, patch_parser(fixed), 2, budget - 1)
                                  ELSE /\ Except(ParserError, 2, llm_failed)
                                       /\ budget' = budget - 1
    /\ UNCHANGED <<orch, scope, stage, pipeline>>

patch_executes(call) ==
    call.name \in {"read_file", "check_dependency", "create_patch_file"}

\* oks[i]: whether the environment lets the write of request i succeed
patch_dispatch(call, ok) ==
    CASE call.name = "read_file" -> read_file(call.args.file_path)
      [] call.name = "check_dependency" -> check_dependency(call.args.file_path)
      [] call.name = "create_patch_file" ->
            create_patch_file(call.args.original_file_path, call.args.fixed_content, ok)
      [] OTHER -> UnknownTool(call.name)

patch_tool_content(call, observation) ==
    CASE call.name = "read_file" -> ReadFileContent(observation)
      [] call.name = "check_dependency" -> StrOf(observation)
      [] call.name = "create_patch_file" ->
            IF observation.success
            THEN "{\"success\": true, \"patch_file\": \"" \o observation.patch_file \o "\"}"
            ELSE "{\"success\": false, \"error\": \"" \o observation.error \o "\"}"
      [] OTHER -> observation.text

\* faulty variant: the tool node does not save the result of a write
patch_result_unsaved(call, observation, before) == before

\* faulty variant: the tool name is not tested, so any successful observation
\* is saved as the patch result
patch_result_after_anytool(call, observation, before) ==
    IF call.name \in {"read_file", "create_patch_file"} /\ observation.success
    THEN observation
    ELSE before

\* patch_result as request i of the tool node leaves it
patch_result_after(call, observation, before) ==
    IF call.name # "create_patch_file" THEN before
    ELSE IF observation.success THEN observation
    ELSE [success |-> FALSE, error |-> observation.error]

RECURSIVE patch_result_fold(_, _, _, _)
patch_result_fold(calls, obs, i, before) ==
    IF i > Len(calls) THEN before
    ELSE patch_result_fold(calls, obs, i + 1,
                           patch_result_after(calls[i], obs[i], before))

\* requests of the list whose write the environment lets fail
FailedWrites(calls, oks) ==
    Cardinality({i \in 1..Len(calls) : ~oks[i]})

\* the successful writes among the executions, in order
Written(execs) ==
    LET ws == SelectSeq(execs, LAMBDA e : e.tool = "create_patch_file" /\ e.output.success)
    IN  [j \in 1..Len(ws) |->
            [patch_file |-> ws[j].output.patch_file, content |-> ws[j].input.fixed_content]]

patch_tool_node ==
    /\ UNCHANGED ToolVars
    /\ UNCHANGED <<conversations, exception>>
    /\ stage = "Patch" /\ pc = "tools"
    /\ LET calls == Last(messages).tool_calls
       IN  \E oks \in [1..Len(calls) -> BOOLEAN] :
             /\ \A i \in 1..Len(calls) : calls[i].name # "create_patch_file" => oks[i]
             /\ FailedWrites(calls, oks) <= budget
             /\ budget' = budget - FailedWrites(calls, oks)
             /\ LET obs == [i \in 1..Len(calls) |-> patch_dispatch(calls[i], oks[i])]
                    execs == [i \in 1..Len(calls) |-> Exec("tools", calls[i], obs[i])]
                IN  /\ messages' = messages \o
                           results(calls, [i \in 1..Len(calls) |->
                                              patch_tool_content(calls[i], obs[i])])
                    /\ message_history' = message_history \o
                           [i \in 1..Len(calls) |->
                               ToolCallEntry(shared_memory.iteration, calls[i], obs[i])]
                    /\ shared_memory' =
                           [shared_memory EXCEPT
                               !.patch_file_loaded = @ \/ Requests(calls, "read_file"),
                               !.patch_result =
                                   patch_result_fold(calls, obs, 1, @)]
                    /\ tool_execs' = tool_execs \o
                           SelectSeq(execs, LAMBDA e : patch_executes([name |-> e.tool]))
                    /\ patches' = patches \o Written(execs)
    /\ pc' = "llm"
    /\ UNCHANGED <<orch, scope, stage, pipeline, llm_calls, llm_failed,
                   all_read, any_create>>

(***************************************************************************)
(* Orchestrators: the input each hands to a stage graph.                   *)
(***************************************************************************)
Trace == "AttributeError: 'User' object has no attribute 'emails'"

EmptyMemory ==
    [iteration |-> 0, rca_result |-> None, fix_result |-> None,
     patch_result |-> None, patch_file_loaded |-> FALSE]

EmptyPipeline ==
    [messages |-> <<HumanMessage(Trace)>>, rca_result |-> None,
     fix_result |-> None, patch_result |-> None, error |-> "",
     message_history |-> <<>>, workflow_status |-> "initialized"]

\* messages, shared_memory and message_history of the invoke() input
StageInput(o, s, pl) ==
    CASE s = "RCA" ->
            [messages |-> IF o = "workflow" THEN pl.messages
                          ELSE <<HumanMessage(Trace)>>,
             shared_memory |-> EmptyMemory,
             message_history |-> IF o = "workflow" THEN pl.messages ELSE <<>>]
      [] s = "Fix" ->
            [messages |-> IF o = "workflow"
                          THEN <<HumanMessage("Generate fix plan based on RCA")>>
                          ELSE <<>>,
             shared_memory |-> [EmptyMemory EXCEPT !.rca_result = pl.rca_result],
             message_history |-> IF o = "workflow" THEN pl.messages ELSE <<>>]
      [] s = "Patch" ->
            [messages |-> <<HumanMessage("Generate patch using Fix Plan and tools")>>,
             shared_memory |-> [EmptyMemory EXCEPT !.rca_result = pl.rca_result,
                                                   !.fix_result = pl.fix_result],
             message_history |-> IF o = "workflow" THEN pl.messages ELSE <<>>]

\* a stage graph has just been invoked
Invoked(o, s, pl) ==
    /\ stage = s
    /\ pc = "llm"
    /\ messages = StageInput(o, s, pl).messages
    /\ shared_memory = StageInput(o, s, pl).shared_memory
    /\ message_history = StageInput(o, s, pl).message_history
    /\ llm_calls = 0
    /\ llm_failed = FALSE
    /\ tool_execs = <<>>
    /\ all_read = TRUE
    /\ any_create = FALSE
    /\ conversations = <<>>

\* app.invoke(input): the stage graph starts at its model node
Invoke(o, s, pl) ==
    /\ pc' = "llm"
    /\ messages' = StageInput(o, s, pl).messages
    /\ shared_memory' = StageInput(o, s, pl).shared_memory
    /\ message_history' = StageInput(o, s, pl).message_history
    /\ llm_calls' = 0
    /\ llm_failed' = FALSE
    /\ tool_execs' = <<>>
    /\ all_read' = TRUE
    /\ any_create' = FALSE
    /\ conversations' = <<>>

NextStage(s) == CASE s = "RCA" -> "Fix" [] s = "Fix" -> "Patch" [] OTHER -> "Patch"

\* faulty variant: the next stage's loop is entered while leaving this one
Advance_eager(s) ==
    /\ stage' = NextStage(s)
    /\ pc' = IF s = "Patch" THEN "finished" ELSE "llm"

\* the graph edge out of the node of stage s
Advance(s) ==
    /\ stage' = NextStage(s)
    /\ pc' = IF s = "Patch" THEN "finished" ELSE "start"

StageVars == <<messages, shared_memory, message_history, llm_calls, llm_failed,
               tool_execs, all_read, any_create, conversations>>

\* the result a stage graph leaves in shared_memory
ResultOf(s, sm) ==
    CASE s = "RCA" -> sm.rca_result
      [] s = "Fix" -> sm.fix_result
      [] s = "Patch" -> sm.patch_result

\* faulty variant: storing a stage's result clears the results of the others
WithResult_only(pl, s, r) ==
    CASE s = "RCA" -> [pl EXCEPT !.rca_result = r, !.fix_result = None, !.patch_result = None]
      [] s = "Fix" -> [pl EXCEPT !.rca_result = None, !.fix_result = r, !.patch_result = None]
      [] s = "Patch" -> [pl EXCEPT !.rca_result = None, !.fix_result = None, !.patch_result = r]

WithResult(pl, s, r) ==
    CASE s = "RCA" -> [pl EXCEPT !.rca_result = r]
      [] s = "Fix" -> [pl EXCEPT !.fix_result = r]
      [] s = "Patch" -> [pl EXCEPT !.patch_result = r]

(***************************************************************************)
(* app/workflow.py: rca_node, fix_node, patch_node.                        *)
(***************************************************************************)
\* faulty variant: the nodes invoke their stage graph unconditionally
wf_guard_none(s, pl) == ""

\* the guard at the head of fix_node and patch_node; "" when it passes
wf_guard(s, pl) ==
    CASE s = "Fix" /\ ~Truthy(pl.rca_result) -> "No RCA result available for Fix agent"
      [] s = "Patch" /\ (~Truthy(pl.rca_result) \/ ~Truthy(pl.fix_result)) ->
            "Missing RCA/Fix results for Patch agent"
      [] OTHER -> ""

\* faulty variant: a failed Patch result is not recorded as an error
wf_error_quiet(s, r) ==
    CASE s = "RCA" /\ ~Truthy(r) -> "RCA failed to produce output"
      [] s = "Fix" /\ ~Truthy(r) -> "Fix agent failed to produce output"
      [] OTHER -> ""

\* the error the node records for the result r its stage returned
wf_error(s, r) ==
    CASE s = "RCA" /\ ~Truthy(r) -> "RCA failed to produce output"
      [] s = "Fix" /\ ~Truthy(r) -> "Fix agent failed to produce output"
      [] s = "Patch" /\ ~(Truthy(r) /\ r.success) -> "Patch agent failed to create patch"
      [] OTHER -> ""

\* a node is entered: the guard returns early or the stage graph is invoked
wf_enter ==
    /\ UNCHANGED ToolVars
    /\ UNCHANGED exception
    /\ scope = "pipeline" /\ orch = "workflow" /\ pc = "start"
    /\ IF wf_guard(stage, pipeline) # ""
       THEN /\ pipeline' = [pipeline EXCEPT !.error = wf_guard(stage, pipeline)]
            /\ Advance(stage)
            /\ UNCHANGED StageVars
       ELSE /\ Invoke("workflow", stage, pipeline)
            /\ UNCHANGED <<stage, pipeline>>
    /\ UNCHANGED <<orch, scope, patches, budget>>

\* the stage graph returned: the node takes over messages and result
wf_return ==
    /\ UNCHANGED ToolVars
    /\ UNCHANGED exception
    /\ scope = "pipeline" /\ orch = "workflow" /\ pc = "returned"
    /\ LET r  == ResultOf(stage, shared_memory)
           p1 == [pipeline EXCEPT !.messages = @ \o messages]
           p2 == WithResult(p1, stage, r)
       IN  pipeline' = IF wf_error(stage, r) # ""
                       THEN [p2 EXCEPT !.error = wf_error(stage, r)]
                       ELSE p2
    /\ Advance(stage)
    /\ UNCHANGED <<orch, scope, patches, budget>>
    /\ UNCHANGED StageVars

(***************************************************************************)
(* app/main.py: rca_agent_node, fix_agent_node, patch_agent_node, main.    *)
(***************************************************************************)
AgentName(s) ==
    CASE s = "RCA" -> "RCA Agent"
      [] s = "Fix" -> "Fix Suggestion Agent"
      [] s = "Patch" -> "Patch Generation Agent"

\* msg["agent"] = name
Tagged(msg, name) ==
    [k \in DOMAIN msg \cup {"agent"} |-> IF k = "agent" THEN name ELSE msg[k]]

main_enter ==
    /\ UNCHANGED ToolVars
    /\ UNCHANGED exception
    /\ scope = "pipeline" /\ orch = "main" /\ pc = "start"
    /\ Invoke("main", stage, pipeline)
    /\ pipeline' = [pipeline EXCEPT !.workflow_status =
                        CASE stage = "RCA" -> "running_rca"
                          [] stage = "Fix" -> "running_fix"
                          [] stage = "Patch" -> "running_patch"]
    /\ UNCHANGED <<orch, scope, stage, patches, budget>>

\* the ValueError a node raises for an empty result
main_error(s) ==
    CASE s = "RCA" -> "RCA Agent failed to produce output"
      [] s = "Fix" -> "Fix Agent failed to produce output"
      [] s = "Patch" -> "Patch Agent failed to produce output"

\* the stage graph returned: raise on an empty result, else merge it
main_return ==
    /\ UNCHANGED ToolVars
    /\ scope = "pipeline" /\ orch = "main" /\ pc = "returned"
    /\ LET r == ResultOf(stage, shared_memory)
       IN  IF ~Truthy(r)
           THEN \* ValueError("... Agent failed to produce output")
                /\ pc' = "raised"
                /\ exception' = main_error(stage)
                /\ UNCHANGED <<stage, pipeline>>
           ELSE /\ pipeline' =
                      [WithResult(pipeline, stage, r) EXCEPT
                          !.message_history = @ \o
                              [i \in 1..Len(message_history) |->
                                  Tagged(message_history[i], AgentName(stage))],
                          !.workflow_status =
                              IF stage = "Patch" THEN "completed" ELSE @]
                /\ Advance(stage)
                /\ UNCHANGED exception
    /\ UNCHANGED <<orch, scope, patches, budget>>
    /\ UNCHANGED StageVars

\* the state main() hands to orchestrator.invoke (workflow.py starts from
\* the trace message alone)
initial_state(o) ==
    [EmptyPipeline EXCEPT !.message_history =
         IF o = "main" THEN <<[event |-> "workflow_started"]>> ELSE <<>>]

\* faulty variant: after an exception main() saves a log that holds only the
\* start and the failure
main_finish_reset ==
    /\ UNCHANGED ToolVars
    /\ UNCHANGED exception
    /\ scope = "pipeline" /\ orch = "main" /\ pc \in {"finished", "raised"}
    /\ pipeline' =
           IF pc = "finished"
           THEN [pipeline EXCEPT !.message_history =
                     Append(@, [event |-> "workflow_completed", status |-> "success"])]
           ELSE [initial_state("main") EXCEPT
                     !.message_history =
                         Append(@, [event |-> "workflow_failed", error |-> exception]),
                     !.workflow_status = "failed"]
    /\ pc' = "saved"
    /\ UNCHANGED <<orch, scope, stage, patches, budget>>
    /\ UNCHANGED StageVars

\* main(): the run is over, by END or by an exception.  After an exception
\* main() saves initial_state, whose message_history list and shared_memory
\* dict are the objects the nodes updated in place.
main_finish ==
    /\ UNCHANGED ToolVars
    /\ UNCHANGED exception
    /\ scope = "pipeline" /\ orch = "main" /\ pc \in {"finished", "raised"}
    /\ pipeline' =
           IF pc = "finished"
           THEN [pipeline EXCEPT !.message_history =
                     Append(@, [event |-> "workflow_completed", status |-> "success"])]
           ELSE [pipeline EXCEPT
                     !.message_history =
                         Append(@, [event |-> "workflow_failed", error |-> exception]),
                     !.workflow_status = "failed"]
    /\ pc' = "saved"
    /\ UNCHANGED <<orch, scope, stage, patches, budget>>
    /\ UNCHANGED StageVars

\* the fix results the Fix stage can hand on for an RCA result
FixResultsFor(rca_result) ==
    {fix_data(f, rca_result) : f \in {g \in FixProposals : Len(g.files_to_modify) = 1}}

\* the pipeline states in which an orchestrator invokes stage s
UpstreamFor(s) ==
    CASE s = "RCA" -> {EmptyPipeline}
      [] s = "Fix" -> {[EmptyPipeline EXCEPT !.rca_result = r] : r \in RCAOutputs}
      [] s = "Patch" ->
            UNION {{[EmptyPipeline EXCEPT !.rca_result = r, !.fix_result = f] :
                        f \in FixResultsFor(r)} : r \in {x \in RCAOutputs : x.affected_file = "a.py"}}

(***************************************************************************)
(* Specification of one stage run.                                         *)
(***************************************************************************)
\* the tool environment of a stage or pipeline run: the root is configured
\* (main.py sets it) and the process runs outside the codebase
ConfiguredTools ==
    /\ codebase_root = "/codebase"
    /\ cwd = "/work"
    /\ disk = InitialDisk
    /\ last_call = None

Init ==
    /\ ConfiguredTools
    /\ scope = "stage"
    /\ orch \in {"workflow", "main"}
    /\ patches = <<>>
    /\ budget = MaxDeviations
    /\ exception = ""
    /\ \E s \in Stages :
          /\ pipeline \in UpstreamFor(s)
          /\ Invoked(orch, s, pipeline)

StageNext ==
    \/ rca_llm_node
    \/ rca_tool_node
    \/ fix_llm_node
    \/ fix_tool_node
    \/ patch_llm_node
    \/ patch_tool_node

Next == StageNext

Spec == Init /\ [][Next]_vars

(***************************************************************************)
(* Specification of a whole pipeline run, under either orchestrator.       *)
(***************************************************************************)
PipelineInit ==
    /\ ConfiguredTools
    /\ scope = "pipeline"
    /\ orch \in {"workflow", "main"}
    /\ stage = "RCA"
    /\ pc = "start"
    /\ pipeline = initial_state(orch)
    /\ messages = <<>>
    /\ shared_memory = EmptyMemory
    /\ message_history = <<>>
    /\ llm_calls = 0
    /\ llm_failed = FALSE
    /\ tool_execs = <<>>
    /\ all_read = TRUE
    /\ any_create = FALSE
    /\ conversations = <<>>
    /\ patches = <<>>
    /\ budget = MaxDeviations
    /\ exception = ""

PipelineNext ==
    \/ StageNext
    \/ wf_enter
    \/ wf_return
    \/ main_enter
    \/ main_return
    \/ main_finish

PipelineSpec == PipelineInit /\ [][PipelineNext]_vars

(***************************************************************************)
(* Specification of the tools called directly, in any environment.         *)
(***************************************************************************)
\* the texts a caller may ask create_patch_file to write
PatchContents == {"fixed code", ""}

\* the record of one direct call
Called(tool, args, outcome) == [tool |-> tool, args |-> args, outcome |-> outcome]

\* open(path, 'w').write(content)
WriteFile(files, path, content) ==
    [p \in DOMAIN files \cup {path} |-> IF p = path THEN content ELSE files[p]]

ToolInit ==
    /\ scope = "tools"
    /\ orch = "workflow"
    /\ stage = "RCA"
    /\ pc = "idle"
    /\ pipeline = EmptyPipeline
    /\ messages = <<>>
    /\ shared_memory = EmptyMemory
    /\ message_history = <<>>
    /\ llm_calls = 0
    /\ llm_failed = FALSE
    /\ tool_execs = <<>>
    /\ all_read = TRUE
    /\ any_create = FALSE
    /\ conversations = <<>>
    /\ patches = <<>>
    /\ budget = MaxDeviations
    /\ exception = ""
    /\ codebase_root \in {"", "/codebase"}
    /\ cwd \in {"/work", "/codebase"}
    /\ disk = InitialDisk
    /\ last_call = None

NonToolVars == <<orch, scope, stage, pc, messages, shared_memory, message_history,
                 pipeline, llm_calls, llm_failed, tool_execs, patches,
                 all_read, any_create, budget, conversations, exception>>

\* read_file.invoke({"file_path": p}) of app/tools
call_read_file ==
    /\ scope = "tools"
    /\ \E p \in ToolPaths :
          last_call' = Called("read_file", [file_path |-> p], read_file(p))
    /\ UNCHANGED <<codebase_root, cwd, disk>>
    /\ UNCHANGED NonToolVars

\* read_file.invoke({"file_path": p}) of src/tools
call_tools_read_file ==
    /\ scope = "tools"
    /\ \E p \in ToolPaths :
          last_call' = Called("tools.read_file", [file_path |-> p], tools_read_file(p))
    /\ UNCHANGED <<codebase_root, cwd, disk>>
    /\ UNCHANGED NonToolVars

call_check_dependency ==
    /\ scope = "tools"
    /\ \E p \in ToolPaths :
          last_call' = Called("check_dependency", [file_path |-> p], check_dependency(p))
    /\ UNCHANGED <<codebase_root, cwd, disk>>
    /\ UNCHANGED NonToolVars

\* create_patch_file.invoke(...): the write succeeds or fails
call_create_patch_file ==
    /\ scope = "tools"
    /\ \E p \in ToolPaths : \E c \in PatchContents : \E ok \in BOOLEAN :
          LET r == create_patch_file(p, c, ok)
          IN  /\ last_call' = Called("create_patch_file",
                                     [original_file_path |-> p, fixed_content |-> c], r)
              /\ disk' = IF ok THEN WriteFile(disk, r.absolute_path, c) ELSE disk
    /\ UNCHANGED <<codebase_root, cwd>>
    /\ UNCHANGED NonToolVars

ToolNext ==
    \/ call_read_file
    \/ call_tools_read_file
    \/ call_check_dependency
    \/ call_create_patch_file

ToolSpec == ToolInit /\ [][ToolNext]_vars

(***************************************************************************)
(* Properties.                                                             *)
(***************************************************************************)
Running == pc \in {"llm", "tools"}

\* the tools each stage's tool node dispatches
Dispatched(s) ==
    CASE s = "RCA" -> {"read_file", "get_project_directory", "check_dependency"}
      [] s = "Fix" -> {"read_file"}
      [] s = "Patch" -> {"read_file", "check_dependency", "create_patch_file"}

\* C1 as stated: a stage run makes at most cap completion-service
\* invocations.
C1_InvocationsWithinCap == llm_calls <= Cap(stage)

\* C1 as amended: a stage run executes its model node at most cap times and
\* is no longer running once the counter reaches the cap; every execution
\* makes at most two completion-service invocations.
C1_IterationsWithinCap ==
    /\ shared_memory.iteration <= Cap(stage)
    /\ Running => shared_memory.iteration < Cap(stage)
    /\ llm_calls <= 2 * shared_memory.iteration

\* a run whose every response requested tools has ended at the cap
C1_Witness ==
    /\ pc = "returned"
    /\ shared_memory.iteration = Cap(stage)
    /\ llm_calls = Cap(stage)
    /\ HasToolCalls(Last(messages))

\* C2: every fix_result of the Fix stage names exactly the file RCA reported.
C2_FilesForced ==
    (stage = "Fix" /\ Truthy(shared_memory.fix_result)) =>
        shared_memory.fix_result.files_to_modify
            = <<shared_memory.rca_result.affected_file>>

\* the model proposed b.py (alone or with a.py) for an RCA result about a.py
C2_Witness ==
    /\ stage = "Fix"
    /\ Truthy(shared_memory.fix_result)
    /\ shared_memory.rca_result.affected_file = "a.py"
    /\ shared_memory.fix_result.fix_summary = "add an emails attribute"

C5_UpstreamPresent ==
    Running =>
        /\ stage = "Fix" =>
              Truthy(pipeline.rca_result) /\ Truthy(shared_memory.rca_result)
        /\ stage = "Patch" =>
              /\ Truthy(pipeline.rca_result) /\ Truthy(shared_memory.rca_result)
              /\ Truthy(pipeline.fix_result) /\ Truthy(shared_memory.fix_result)

\* the RCA stage ended without a result and both later nodes returned early
C5_Witness ==
    /\ pc = "finished"
    /\ ~Truthy(pipeline.rca_result)
    /\ pipeline.error = "Missing RCA/Fix results for Patch agent"

PatchFailedWithError ==
    /\ shared_memory.iteration <= PATCH_MAX_ITER
    /\ Truthy(shared_memory.patch_result)
    /\ ~shared_memory.patch_result.success
    /\ shared_memory.patch_result.error # ""

C9_AuditPairs ==
    pc = "returned" =>
        /\ CountEvent(message_history, "agent_input")
              = CountEvent(message_history, "agent_output")
        /\ CountEvent(message_history, "agent_input") = shared_memory.iteration

\* the tool_call entries of the log that record an executed tool
ToolCallLog ==
    LET es == SelectSeq(message_history,
                  LAMBDA e : /\ "event" \in DOMAIN e
                             /\ e.event = "tool_call"
                             /\ e.tool \in Dispatched(stage))
    IN  [i \in 1..Len(es) |->
            [tool |-> es[i].tool, input |-> es[i].input, output |-> es[i].output]]

\* C10: the tool executions of a stage, in order, are exactly its tool_call
\* entries, with the same input and output.
C10_ToolCallsAudited ==
    ToolCallLog =
        [i \in 1..Len(tool_execs) |->
            [tool |-> tool_execs[i].tool, input |-> tool_execs[i].input,
             output |-> tool_execs[i].output]]

\* C11: in the RCA and Fix stages no create_patch_file execution happens and
\* no patch file is written, whatever the model requests.
C11_NoWriteOutsidePatch ==
    stage \in {"RCA", "Fix"} =>
        /\ \A i \in 1..Len(tool_execs) : tool_execs[i].tool # "create_patch_file"
        /\ patches = <<>>

\* the RCA or Fix tool node has answered a create_patch_file request
C11_Witness ==
    /\ stage \in {"RCA", "Fix"}
    /\ pc = "llm"
    /\ Len(messages) > 1
    /\ Last(messages).content = "Unknown tool: create_patch_file"
    /\ tool_execs = <<>>

Unanswered(msgs) ==
    UNION {{msgs[i].tool_calls[j].id : j \in 1..Len(msgs[i].tool_calls)}
              : i \in 1..Len(msgs)}
        \ {msgs[k].tool_call_id : k \in {n \in 1..Len(msgs) : msgs[n].role = "tool"}}

\* C13: when a stage graph has returned, every tool request of its
\* conversation has been answered by a tool message with the request's id.
C13_RequestsAnswered ==
    pc = "returned" => Unanswered(messages) = {}

\* the RCA stage is over after a plain response that rca_parser could not
\* parse, with no failure of the completion service
RcaUnparsed ==
    /\ stage = "RCA"
    /\ ~Running
    /\ ~llm_failed
    /\ message_history # <<>>
    /\ LET e == Last(message_history)
       IN  /\ "event" \in DOMAIN e
           /\ e.event = "agent_output"
           /\ e.tool_calls = <<>>
           /\ rca_parser(e.content) = None

\* the Patch stage has recorded that neither patch_parser nor the fixing
\* parser could parse a plain response
PatchUnparsed ==
    /\ stage = "Patch"
    /\ shared_memory.patch_result = [success |-> FALSE, error |-> ParserError]

\* C14: a plain response that fails parsing and re-parsing leaves the stage
\* done with a degraded result carrying the parse error: the RCA graph has
\* returned, not raised, with an rca_result, and the Patch graph has stopped.
C14_ParseFailureDegrades ==
    /\ RcaUnparsed => (pc = "returned" /\ Truthy(shared_memory.rca_result))
    /\ PatchUnparsed => ~Running

\* the audit log or the stage result says that the iteration cap ended the run
MaxIterationsMarked ==
    \/ Truthy(ResultOf(stage, shared_memory))
    \/ \E i \in 1..Len(message_history) :
          /\ "event" \in DOMAIN message_history[i]
          /\ message_history[i].event \in {"max_iterations", "max_iterations_reached"}

\* C15: a stage graph that returns at its iteration cap leaves a result or an
\* explicit max-iterations marker.
C15_CapIsMarked ==
    (pc = "returned" /\ shared_memory.iteration >= Cap(stage)) => MaxIterationsMarked

\* a tool outcome that is a record with success = false and an error, not an
\* exception
FailedQuietly(r) ==
    /\ "raised" \notin DOMAIN r
    /\ "success" \in DOMAIN r
    /\ ~r.success
    /\ r.error # ""

\* the file create_patch_file is to write for an original path
PatchTarget(original_file_path) ==
    JoinPath(cwd, <<"patches", "fixed_" \o PathName(original_file_path)>>)

\* C16: with the root configured, a read_file call on a path that is not a
\* regular file, by either read_file of the repository, returns a failure
\* record and raises nothing; so does a create_patch_file call after which
\* the patch file does not hold the content.
C16_ToolsFailQuietly ==
    last_call # None =>
        /\ (/\ last_call.tool = "read_file"
            /\ codebase_root # ""
            /\ ~IsFile(abs_path(last_call.args.file_path)))
              => FailedQuietly(last_call.outcome)
        /\ (/\ last_call.tool = "tools.read_file"
            /\ codebase_root # ""
            /\ ~IsFile(tools_abs_path(last_call.args.file_path)))
              => FailedQuietly(last_call.outcome)
        /\ (/\ last_call.tool = "create_patch_file"
            /\ \/ ~IsFile(PatchTarget(last_call.args.original_file_path))
               \/ disk[PatchTarget(last_call.args.original_file_path)]
                      # last_call.args.fixed_content)
              => FailedQuietly(last_call.outcome)

\* C17: with the root not configured, every read_file call returns a failure
\* record whose error says the root is not set, with no content, and raises
\* nothing.
C17_UnsetRootFailsQuietly ==
    (last_call # None /\ last_call.tool \in {"read_file", "tools.read_file"}
        /\ codebase_root = "")
      => /\ FailedQuietly(last_call.outcome)
         /\ last_call.outcome.error = "CODEBASE_ROOT environment variable not set"
         /\ "content" \notin DOMAIN last_call.outcome

\* C18: check_dependency on a file read_file reads returns success = true and
\* the sorted, duplicate-free import targets of the file.
C18_DependenciesExtracted ==
    (/\ last_call # None
     /\ last_call.tool = "check_dependency"
     /\ read_file(last_call.args.file_path).success)
      => /\ last_call.outcome.success
         /\ last_call.outcome.python_dependencies
              = python_imports(read_file(last_call.args.file_path).content)

\* C19: a step changes or creates no file but patches/fixed_<base name> of
\* the call's original path, and that file is not the original source file,
\* whether the original is resolved against the codebase root or the working
\* directory.
C19_WritesBesideOriginal ==
    [][\A p \in DOMAIN disk' :
          (p \notin DOMAIN disk \/ disk'[p] # disk[p]) =>
              /\ last_call'.tool = "create_patch_file"
              /\ p = PatchTarget(last_call'.args.original_file_path)
              /\ p # abs_path(last_call'.args.original_file_path)
              /\ p # JoinPath(cwd, Lstrip(Components(last_call'.args.original_file_path)))]_vars

\* a patch of patches/fixed_a.py was written from inside the codebase
C19_Witness ==
    /\ last_call # None
    /\ last_call.tool = "create_patch_file"
    /\ last_call.outcome.success
    /\ cwd = "/codebase"
    /\ cwd = codebase_root
    /\ last_call.args.original_file_path = "patches/fixed_a.py"
    /\ IsFile("/codebase/patches/fixed_fixed_a.py")
    /\ IsFile("/codebase/patches/fixed_a.py")

\* C20: the orchestrator moves to another stage only when no stage loop is
\* running, always to the next stage of RCA -> Fix -> Patch, and a stage loop
\* starts only from the orchestrator node of its own stage: the loops run one
\* after the other, never two at once.
C20_StagesInSequence ==
    [][/\ stage' # stage =>
             /\ pc \in {"returned", "start"}
             /\ pc' \in {"start", "finished"}
             /\ stage' = NextStage(stage)
       /\ (Running' /\ ~Running) =>
             /\ pc = "start"
             /\ stage' = stage
             /\ llm_calls' = 0
       /\ (Running /\ ~Running') => pc' \in {"returned", "raised"}]_vars

\* the Patch loop is running after the RCA and Fix loops have returned
C20_Witness ==
    /\ scope = "pipeline"
    /\ stage = "Patch"
    /\ Running
    /\ llm_calls > 0
    /\ Truthy(pipeline.rca_result)
    /\ Truthy(pipeline.fix_result)

\* the first stage, in pipeline order, whose result the orchestrator holds
\* empty; "" when there is none
FirstEmpty(pl) ==
    IF ~Truthy(pl.rca_result) THEN "RCA"
    ELSE IF ~Truthy(pl.fix_result) THEN "Fix"
    ELSE IF ~Truthy(pl.patch_result) THEN "Patch"
    ELSE ""

\* the one stage an error text reports as having failed; "" when the text
\* singles out no stage
FailedStageNamed(e) ==
    CASE e \in {"RCA failed to produce output", "RCA Agent failed to produce output",
                "No RCA result available for Fix agent"} -> "RCA"
      [] e \in {"Fix agent failed to produce output",
                "Fix Agent failed to produce output"} -> "Fix"
      [] e \in {"Patch agent failed to create patch",
                "Patch Agent failed to produce output"} -> "Patch"
      [] OTHER -> ""

\* C21: when a stage graph returns an empty result, the error the run ends
\* with names that stage: state.error of a finished workflow.py run names the
\* first stage whose result is empty, and main.py raises, and records in its
\* workflow_failed entry, an error naming the stage that returned.
C21_ErrorNamesFailedStage ==
    /\ [](orch = "workflow" /\ pc = "finished" /\ FirstEmpty(pipeline) # ""
            => FailedStageNamed(pipeline.error) = FirstEmpty(pipeline))
    /\ [][(orch = "main" /\ pc = "returned" /\ ~Truthy(ResultOf(stage, shared_memory)))
            => (pc' = "raised" /\ FailedStageNamed(exception') = stage)]_vars
    /\ [](orch = "main" /\ pc = "saved" /\ exception # ""
            => Last(pipeline.message_history).error = exception)

\* the audit entries of a stage's log (a log handed in by workflow.py starts
\* with the messages of the pipeline)
AuditEntries(log) == SelectSeq(log, LAMBDA e : "event" \in DOMAIN e)

\* the last n entries of log are the entries es, in order, each carrying an
\* agent field that names stage s
MergedAtEnd(log, es, s) ==
    /\ Len(log) >= Len(es)
    /\ \A i \in 1..Len(es) :
          LET e == log[Len(log) - Len(es) + i]
          IN  /\ "agent" \in DOMAIN e
              /\ e.agent \in {s, AgentName(s)}
              /\ e = Tagged(es[i], e.agent)

\* C22: when the orchestrator takes over from a stage graph that has
\* returned, the pipeline-level log ends with all audit entries of the stage,
\* in their order, each tagged with the stage's name.
C22_StageLogMerged ==
    [][(scope = "pipeline" /\ pc = "returned")
          => MergedAtEnd(pipeline'.message_history, AuditEntries(message_history),
                         stage)]_vars

\* C23: when main() has saved a failed run, the saved log ends with a
\* workflow_failed entry that carries the error, preceded by the audit
\* entries of the attempts of the stage that failed.
C23_FailureLeavesTrace ==
    (orch = "main" /\ pc = "saved" /\ pipeline.workflow_status = "failed") =>
        LET log == pipeline.message_history
        IN  /\ Last(log).event = "workflow_failed"
            /\ Last(log).error # ""
            /\ MergedAtEnd(SubSeq(log, 1, Len(log) - 1),
                           AuditEntries(message_history), stage)

\* the executions hold a read_file, and no create_patch_file before the first
\* read_file
ReadFirst(execs) ==
    \E i \in 1..Len(execs) :
       /\ execs[i].tool = "read_file"
       /\ \A j \in 1..(i - 1) : execs[j].tool # "create_patch_file"

\* C24: in a Patch run, the step that records the first patch_result, and
\* every step that writes a patch file, comes after a read_file execution
\* of the run.
C24_ReadBeforeResult ==
    [][(stage = "Patch" /\ Running
          /\ \/ ~Truthy(shared_memory.patch_result) /\ Truthy(shared_memory'.patch_result)
             \/ patches' # patches)
          => ReadFirst(tool_execs')]_vars

\* the tool messages of a conversation
ToolResults(msgs) == {msgs[i] : i \in {k \in 1..Len(msgs) : msgs[k].role = "tool"}}

\* C25: the request with which a model-node execution opens (its
\* tool-capable invocation) carries every tool message that the stage's
\* conversation holds when the node starts.
C25_ToolResultsSent ==
    [][(Running /\ pc = "llm" /\ conversations' # <<>>) =>
          ToolResults(messages) \subseteq ToolResults(conversations'[1])]_vars

C27_CounterBounded ==
    /\ shared_memory.iteration = 0
    /\ [](shared_memory.iteration \in 0..Cap(stage))
    /\ [][/\ shared_memory'.iteration >= shared_memory.iteration
          /\ shared_memory'.iteration <= shared_memory.iteration + 1]_vars

\* a Patch run that never triggered the stuck detector has ended at its cap
C27_Witness ==
    /\ stage = "Patch"
    /\ pc = "returned"
    /\ shared_memory.iteration = PATCH_MAX_ITER
    /\ shared_memory.patch_result # StuckResult

\* the sequence a is a prefix of the sequence b
IsPrefix(a, b) == Len(a) <= Len(b) /\ SubSeq(b, 1, Len(a)) = a

C29_ResultsOwnedByStage ==
    /\ [][/\ pipeline'.rca_result # pipeline.rca_result => stage = "RCA"
          /\ pipeline'.fix_result # pipeline.fix_result => stage = "Fix"
          /\ pipeline'.patch_result # pipeline.patch_result => stage = "Patch"
          /\ (Running /\ stage \in {"Fix", "Patch"}) =>
                shared_memory'.rca_result = shared_memory.rca_result
          /\ (Running /\ stage = "Patch") =>
                shared_memory'.fix_result = shared_memory.fix_result]_vars
    /\ []((Running /\ stage \in {"Fix", "Patch"}) =>
              shared_memory.rca_result = pipeline.rca_result)
    /\ []((Running /\ stage = "Patch") =>
              shared_memory.fix_result = pipeline.fix_result)

\* a whole run is over with the three results in the pipeline context
C29_Witness ==
    /\ scope = "pipeline"
    /\ pc \in {"finished", "saved"}
    /\ Truthy(pipeline.rca_result)
    /\ Truthy(pipeline.fix_result)
    /\ Truthy(pipeline.patch_result)
    /\ pipeline.fix_result.files_to_modify = <<pipeline.rca_result.affected_file>>
    /\ pipeline.patch_result.success

\* the request begins with the system instruction of stage s
OpensWithInstruction(request, s) ==
    /\ Len(request) > 0
    /\ request[1].role = "system"
    /\ request[1].content = SYSTEM_PROMPT(s)

\* C30 as stated: every request a stage sends to the completion service
\* begins with the stage's system instruction.
C30_RequestsOpenWithInstruction ==
    \A k \in 1..Len(conversations) : OpensWithInstruction(conversations[k], stage)

\* C30 as amended: every request a model node builds itself (its tool-capable
\* invocation and, in the Fix stage, its structured-output invocation) begins
\* with the stage's system instruction, on the first execution and on every
\* later one; the repair request of the fixing parser, the second request of
\* an RCA or Patch execution, does not.
C30_NodeRequestsOpenWithInstruction ==
    \A k \in 1..Len(conversations) :
       IF k = 1 \/ stage = "Fix"
       THEN OpensWithInstruction(conversations[k], stage)
       ELSE conversations[k][1].role = "human"

\* a later execution of the Patch node has sent the conversation, tool
\* messages included, and then the repair request of the fixing parser
C30_Witness ==
    /\ stage = "Patch"
    /\ shared_memory.iteration >= 2
    /\ Len(conversations) = 2
    /\ OpensWithInstruction(conversations[1], stage)
    /\ ToolResults(conversations[1]) # {}
    /\ ~OpensWithInstruction(conversations[2], stage)

\* the successful create_patch_file executions of the run, in order
SuccessfulWrites ==
    SelectSeq(tool_execs, LAMBDA e : e.tool = "create_patch_file" /\ e.output.success)

\* C31: when the Patch graph has returned with patch_result absent or with
\* success = false, no create_patch_file execution of the run succeeded and
\* no patch file was written.
C31_FailureLeavesNoPatch ==
    (/\ stage = "Patch"
     /\ pc = "returned"
     /\ ~(Truthy(shared_memory.patch_result) /\ shared_memory.patch_result.success))
      => (SuccessfulWrites = <<>> /\ patches = <<>>)

\* C32: when the Patch graph has returned with patch_result.success = true, a
\* create_patch_file execution of that run returned success and its patch
\* file was written.
C32_SuccessHasWrite ==
    (/\ stage = "Patch"
     /\ pc = "returned"
     /\ Truthy(shared_memory.patch_result)
     /\ shared_memory.patch_result.success)
      => (SuccessfulWrites # <<>> /\ patches # <<>>)

C32_Witness ==
    /\ stage = "Patch"
    /\ pc = "returned"
    /\ Truthy(shared_memory.patch_result)
    /\ shared_memory.patch_result.success
    /\ SuccessfulWrites # <<>>

\* C33: a run of the Patch stage holds at most one successful
\* create_patch_file execution, and once one has succeeded no step of the run
\* invokes the model or executes create_patch_file again.
C33_OneWrite ==
    /\ [](stage = "Patch" => Len(SuccessfulWrites) <= 1)
    /\ [][(stage = "Patch" /\ SuccessfulWrites # <<>>)
            => /\ llm_calls' = llm_calls
               /\ SelectSeq(tool_execs', LAMBDA e : e.tool = "create_patch_file")
                     = SelectSeq(tool_execs, LAMBDA e : e.tool = "create_patch_file")]_vars

\* model responses i < j of the conversation that both request read_file
\* with no model response without tool requests anywhere between them
ConsecutiveReads(msgs) ==
    \E i \in 1..Len(msgs) : \E j \in (i + 1)..Len(msgs) :
        /\ Requests(msgs[i].tool_calls, "read_file")
        /\ Requests(msgs[j].tool_calls, "read_file")
        /\ \A k \in (i + 1)..(j - 1) :
              ~(msgs[k].role = "ai" /\ ~HasToolCalls(msgs[k]))

\* C34: when the Patch graph has been ended by its read-file loop-breaker, the
\* conversation holds two model responses that request read_file with no
\* non-tool model response between them.
C34_BreakerOnlyOnConsecutiveReads ==
    (/\ stage = "Patch"
     /\ pc = "returned"
     /\ shared_memory.patch_result = StuckResult)
      => ConsecutiveReads(messages)

\* the read_file requests of one message
ReadsOf(msg) == SelectSeq(msg.tool_calls, LAMBDA c : c.name = "read_file")

\* the read_file executions of the run, in order
ReadExecs == SelectSeq(tool_execs, LAMBDA e : e.tool = "read_file")

\* C35: in a run of the Patch stage the tool node is entered with a response
\* that requests read_file only when no earlier response requested it and no
\* read_file has been executed, and the read_file executions of the run are
\* the read_file requests of one response.
C35_ReadsOfOneResponse ==
    stage = "Patch" =>
        /\ (pc = "tools" /\ Requests(Last(messages).tool_calls, "read_file"))
              => (read_file_calls(messages) = 1 /\ ReadExecs = <<>>)
        /\ ReadExecs # <<>> =>
              \E i \in 1..Len(messages) :
                  [k \in 1..Len(ReadExecs) |-> ReadExecs[k].input]
                      = [k \in 1..Len(ReadsOf(messages[i])) |->
                            ReadsOf(messages[i])[k].args]

\* a second response has requested read_file after the first one's requests
\* were executed, and the run has ended without executing it
C35_Witness ==
    /\ stage = "Patch"
    /\ pc = "returned"
    /\ read_file_calls(messages) = 2
    /\ ReadExecs # <<>>
    /\ Requests(Last(messages).tool_calls, "read_file")

\* C36: every execution of the RCA model node that returns is followed by the
\* route "tools" or END, never by "llm": the decision finds the cap reached,
\* tool requests in the response, or rca_result set.
C36_RcaNeverRoutesToLlm ==
    [][(stage = "RCA" /\ pc = "llm" /\ pc' # "raised")
         => /\ pc' \in {"tools", "returned"}
            /\ rca_should_continue(shared_memory', messages') # "llm"
            /\ \/ shared_memory'.iteration >= RCA_MAX_ITER
               \/ HasToolCalls(Last(messages'))
               \/ Truthy(shared_memory'.rca_result)]_vars

\* a plain response below the cap: the decision ended the loop on rca_result
C36_Witness ==
    /\ stage = "RCA"
    /\ pc = "returned"
    /\ shared_memory.iteration < RCA_MAX_ITER
    /\ ~HasToolCalls(Last(messages))
    /\ Truthy(shared_memory.rca_result)

\* the step is an execution of the Patch model node that ended in the
\* rate-limit branch
RateLimitedStep ==
    /\ stage = "Patch"
    /\ pc = "llm"
    /\ Len(message_history') = Len(message_history) + 2
    /\ "event" \in DOMAIN Last(message_history')
    /\ Last(message_history').event = "patch_llm_rate_limited"

\* C37: a Patch model invocation that fails with a rate-limit error leaves the
\* conversation, patch_result, the executions and the patch files unchanged;
\* it adds one to the iteration counter and appends the agent_input and
\* patch_llm_rate_limited entries to the audit log.
C37_RateLimitFrame ==
    [][RateLimitedStep
         => /\ messages' = messages
            /\ shared_memory' = [shared_memory EXCEPT !.iteration = @ + 1]
            /\ tool_execs' = tool_execs
            /\ patches' = patches
            /\ IsPrefix(message_history, message_history')
            /\ message_history'[Len(message_history) + 1].event = "agent_input"
            /\ Last(message_history').iteration = shared_memory.iteration + 1
            /\ pc' \in {"llm", "returned"}
            /\ shared_memory.iteration + 1 >= PATCH_MAX_ITER => pc' = "returned"]_vars

\* a rate-limited invocation after a read: the loop goes on with the
\* conversation as it was
C37_Witness ==
    /\ stage = "Patch"
    /\ pc = "llm"
    /\ Len(messages) >= 3
    /\ message_history # <<>>
    /\ "event" \in DOMAIN Last(message_history)
    /\ Last(message_history).event = "patch_llm_rate_limited"

\* C38: when a run of workflow.py has finished, state.error is unset exactly
\* when state.patch_result exists with success = true.
C38_ErrorIffNoPatch ==
    (orch = "workflow" /\ pc = "finished")
      => (pipeline.error = ""
            <=> (Truthy(pipeline.patch_result) /\ pipeline.patch_result.success))

\* a finished run whose Patch stage ran and reported failure
C38_Witness ==
    /\ orch = "workflow"
    /\ pc = "finished"
    /\ Truthy(pipeline.patch_result)
    /\ ~pipeline.patch_result.success
    /\ pipeline.error = "Patch agent failed to create patch"

\* C39: when a successful create_patch_file call follows a successful call
\* for a different original file, the two calls wrote different patch files.
C39_PatchFilesDistinct ==
    [][(/\ scope = "tools"
        /\ Truthy(last_call)
        /\ last_call.tool = "create_patch_file"
        /\ last_call.outcome.success
        /\ last_call'.tool = "create_patch_file"
        /\ last_call'.outcome.success
        /\ last_call'.args.original_file_path # last_call.args.original_file_path)
         => last_call'.outcome.absolute_path # last_call.outcome.absolute_path]_vars

====
